---- MODULE Spec2Model ----
(***************************************************************************)
(* Model of UMTOOL-DATA: exporter.py (timeline mixer built on pydub) and   *)
(* formatter.py (loudness profiler built on librosa / numpy).              *)
(*                                                                         *)
(* Times given on the command line are floats in seconds; the model holds  *)
(* them as whole ticks, one tick being 1/TicksPerMs of a millisecond, so   *)
(* that int(x * 1000) is a real truncation.  Volume and pitch are exact    *)
(* rationals [n, d].  Samples are 16-bit signed integers, as pydub holds   *)
(* them; a segment is [frame_rate, data] with one channel.                 *)
(***************************************************************************)
EXTENDS Integers, Sequences, FiniteSets, TLC

\* ------------------------------------------------------------ bounds ----
TicksPerMs == 2
MaxClips == 3
MaxBlocks == 2

\* ------------------------------------------------- library constants ----
SilentRate == 11025
MaxSample == 32767
MinSample == -32768
EpsDen == 100000000
Eps == [n |-> 1, d |-> EpsDen]

\* ------------------------------------------------------- arithmetic ----
Abs(x) == IF x < 0 THEN -x ELSE x

Max2(a, b) == IF a >= b THEN a ELSE b

Min2(a, b) == IF a <= b THEN a ELSE b

\* Python int(a / b) for b > 0: truncation toward zero
Trunc(a, b) == IF a >= 0 THEN a \div b ELSE -((-a) \div b)

\* Python round(a / b) for a >= 0, b > 0: round half to even
RoundHalfEven(a, b) ==
    LET q == a \div b
        r == a % b
    IN  IF 2 * r < b THEN q
        ELSE IF 2 * r > b THEN q + 1
        ELSE IF q % 2 = 0 THEN q ELSE q + 1

\* Python math.ceil(a / b) for a >= 0, b > 0
CeilDiv(a, b) == (a + b - 1) \div b

RECURSIVE GCD(_, _)
GCD(a, b) == IF b = 0 THEN a ELSE GCD(b, a % b)

\* max(x, 1e-8) on rationals with positive denominators
RatLeq(a, b) == a.n * b.d <= b.n * a.d

RatMax(a, b) == IF RatLeq(a, b) THEN b ELSE a

ClampEps(x) == RatMax(x, Eps)

Bound16(v) == IF v > MaxSample THEN MaxSample ELSE IF v < MinSample THEN MinSample ELSE v

Zeros(k) == [j \in 1..k |-> 0]

\* Python seq[a:b] on a sequence, negative indices counted from the end;
\* a and b are 0-based positions
PySlice(s, a, b) ==
    LET n  == Len(s)
        lo == IF a < 0 THEN Max2(n + a, 0) ELSE Min2(a, n)
        hi == IF b < 0 THEN Max2(n + b, 0) ELSE Min2(b, n)
    IN  IF hi <= lo THEN << >> ELSE SubSeq(s, lo + 1, hi)

\* ------------------------------------------------- pydub / audioop ----
\* audioop.ratecv(data, 2, 1, inrate, outrate, None): linear interpolation.
\* With i and o the rates over their gcd, the C loop keeps
\* d = (frames read - 1) * o - (frames written) * i and writes while d >= 0,
\* so output m (from 0) is written after frame k = ceil(m * i / o) + 1 is read,
\* from that frame and the one before it (0 before the first).
RatecvOut(s, i, o, m) ==
    LET k    == CeilDiv(m * i, o) + 1
        d    == (k - 1) * o - m * i
        prev == IF k = 1 THEN 0 ELSE s[k - 1]
    IN  (prev * d + s[k] * (o - d)) \div o

Ratecv(s, inrate, outrate) ==
    LET g == GCD(inrate, outrate)
        i == inrate \div g
        o == outrate \div g
    IN  [m \in 1..(((Len(s) - 1) * o) \div i + 1) |-> RatecvOut(s, i, o, m - 1)]

\* AudioSegment.set_frame_rate
SetFrameRate(seg, rate) ==
    IF rate = seg.frame_rate THEN seg
    ELSE [frame_rate |-> rate,
          data |-> IF seg.data = << >> THEN << >>
                   ELSE Ratecv(seg.data, seg.frame_rate, rate)]

\* AudioSegment.silent(duration=ms): int(frame_rate * (duration / 1000.0)) zero frames
Silent(ms) ==
    [frame_rate |-> SilentRate, data |-> Zeros(Max2(0, Trunc(SilentRate * ms, 1000)))]

\* len(seg): round(1000 * frame_count / frame_rate), needs frame_rate # 0
SegLen(seg) == RoundHalfEven(1000 * Len(seg.data), seg.frame_rate)

\* AudioSegment._parse_position: a negative position counts from the end
ParsePosition(seg, val) ==
    LET v == IF val < 0 THEN SegLen(seg) - Abs(val) ELSE val
    IN  Trunc(v * seg.frame_rate, 1000)

SliceStart(seg, a) == ParsePosition(seg, Min2(a, SegLen(seg)))

SliceEnd(seg, b) == ParsePosition(seg, Min2(b, SegLen(seg)))

SliceMissing(seg, a, b) ==
    (SliceEnd(seg, b) - SliceStart(seg, a))
        - Len(PySlice(seg.data, SliceStart(seg, a), SliceEnd(seg, b)))

\* seg[a:b] raises TooManyMissingFrames
SliceRaises(seg, a, b) ==
    /\ SliceMissing(seg, a, b) # 0
    /\ SliceMissing(seg, a, b) * 1000 > 2 * seg.frame_rate

\* seg[a:b] in milliseconds (AudioSegment.__getitem__ with a slice)
GetSlice(seg, a, b) ==
    LET data    == PySlice(seg.data, SliceStart(seg, a), SliceEnd(seg, b))
        missing == SliceMissing(seg, a, b)
        pad     == IF missing > 0 /\ data # << >> THEN Zeros(missing) ELSE << >>
    IN  [frame_rate |-> seg.frame_rate, data |-> data \o pad]

\* seg + gain_db with gain_db = 20 * log10(volume): audioop.mul by volume,
\* floor and saturate
ApplyGain(seg, vol) ==
    [frame_rate |-> seg.frame_rate,
     data |-> [j \in 1..Len(seg.data) |-> Bound16((seg.data[j] * vol.n) \div vol.d)]]

\* AudioSegment._sync: both segments at the larger frame rate
SyncRate(seg1, seg2) == Max2(seg1.frame_rate, seg2.frame_rate)

OverlayRaises(seg1, seg2, position) ==
    LET s1 == SetFrameRate(seg1, SyncRate(seg1, seg2))
    IN  \/ SliceRaises(s1, 0, position)
        \/ SliceRaises(s1, position, SegLen(s1))

\* audioop.add: per-sample sum, saturating at the 16-bit limits
AddSamples(x, y) == Bound16(x + y)

\* seg1.overlay(seg2, position=position)
Overlay(seg1, seg2, position) ==
    LET rate == SyncRate(seg1, seg2)
        s1   == SetFrameRate(seg1, rate)
        s2   == SetFrameRate(seg2, rate)
        head == GetSlice(s1, 0, position).data
        rest == GetSlice(s1, position, SegLen(s1)).data
        d2   == IF Len(s2.data) >= Len(rest) THEN SubSeq(s2.data, 1, Len(rest))
                ELSE s2.data
        sum  == [j \in 1..Len(d2) |-> AddSamples(rest[j], d2[j])]
    IN  [frame_rate |-> rate,
         data |-> head \o sum \o SubSeq(rest, Len(d2) + 1, Len(rest))]

\* ------------------------------------------------------ inputs ----
One == [n |-> 1, d |-> 1]

Half == [n |-> 1, d |-> 2]

Two == [n |-> 2, d |-> 1]

Zero == [n |-> 0, d |-> 1]

\* decode(path): the sources the runs draw from, [frame_rate, data]
Decode(file) ==
    CASE file = "hi.ogg"   -> [frame_rate |-> 1000, data |-> <<30000, 30000, 30000>>]
      [] file = "lo.ogg"   -> [frame_rate |-> 1000, data |-> <<10000, 10000, 10000>>]
      [] file = "neg.ogg"  -> [frame_rate |-> 1000, data |-> <<-10000, -10000, -10000>>]
      [] file = "fast.ogg" -> [frame_rate |-> 22050, data |-> [j \in 1..22 |-> 100 * j]]

Clip(f, off, st, len, vol, p) ==
    [file |-> f, offset |-> off, start |-> st, length |-> len, volume |-> vol, pitch |-> p]

\* clip specifications of the runs; offset, start and length in ticks.
\* The clip at the pitch floor has length 0: with a positive length line 91
\* asks for a canvas of length * 1e8 seconds.
ClipSpace ==
    { Clip("hi.ogg",   0, 0, 2 * TicksPerMs, One, One),
      Clip("lo.ogg",   0, 0, 2 * TicksPerMs, One, One),
      Clip("neg.ogg",  0, 0, 2 * TicksPerMs, One, One),
      Clip("hi.ogg",   1, 0, 2 * TicksPerMs, Half, Two),
      Clip("neg.ogg",  0, TicksPerMs, TicksPerMs + 1, Two, Half),
      Clip("lo.ogg",   0, 0, 0, One, Zero),
      Clip("hi.ogg",   TicksPerMs, 0, TicksPerMs, Zero, One),
      Clip("hi.ogg",   1, 0, -TicksPerMs, One, One),
      Clip("fast.ogg", 0, 0, TicksPerMs, One, One),
      Clip("lo.ogg",   0, -9 * TicksPerMs, 4 * TicksPerMs, One, One) }

ListNames == <<"files", "offsets", "starts", "lengths", "volumes", "pitches">>

Column(clips, name) ==
    [j \in 1..Len(clips) |->
        CASE name = "files"   -> clips[j].file
          [] name = "offsets" -> clips[j].offset
          [] name = "starts"  -> clips[j].start
          [] name = "lengths" -> clips[j].length
          [] name = "volumes" -> clips[j].volume
          [] name = "pitches" -> clips[j].pitch]

DropLast(s) == SubSeq(s, 1, Len(s) - 1)

\* the six parallel lists; list number drop (if any) is one element short
ArgsOf(clips, drop) ==
    [name \in {ListNames[k] : k \in 1..6} |->
        IF drop # 0 /\ name = ListNames[drop]
        THEN DropLast(Column(clips, name)) ELSE Column(clips, name)]

\* ------------------------------------------------ exporter.py main ----
\* the comparison without its last term
SameLength_SkipsPitches(a) ==
    /\ Len(a.files) = Len(a.offsets)
    /\ Len(a.offsets) = Len(a.starts)
    /\ Len(a.starts) = Len(a.lengths)
    /\ Len(a.lengths) = Len(a.volumes)

\* lines 79-80
SameLength(a) ==
    /\ Len(a.files) = Len(a.offsets)
    /\ Len(a.offsets) = Len(a.starts)
    /\ Len(a.starts) = Len(a.lengths)
    /\ Len(a.lengths) = Len(a.volumes)
    /\ Len(a.volumes) = Len(a.pitches)

\* the estimate without the stretch by the pitch
EstEndTime_NoStretch(off, length, pitch) == [n |-> off + length, d |-> 1]

\* lines 86-88: off + length / max(pitch, 1e-8), in ticks, as a rational
EstEndTime(off, length, pitch) ==
    LET p == ClampEps(pitch)
    IN  [n |-> off * p.n + length * p.d, d |-> p.n]

RECURSIVE MinOf(_)
MinOf(S) ==
    LET x == CHOOSE v \in S : TRUE
    IN  IF S = {x} THEN x ELSE Min2(x, MinOf(S \ {x}))

\* line 85: zip stops at the shortest of the four lists
ZipLen4(a) == MinOf({Len(a.offsets), Len(a.starts), Len(a.lengths), Len(a.pitches)})

\* line 93: zip stops at the shortest of the six lists
ZipLen6(a) == MinOf({Len(a.files), Len(a.volumes), ZipLen4(a)})

EstEndTimes(a) ==
    [j \in 1..ZipLen4(a) |-> EstEndTime(a.offsets[j], a.lengths[j], a.pitches[j])]

RECURSIVE RatMaxSeq(_)
RatMaxSeq(s) ==
    IF Len(s) = 1 THEN s[1] ELSE RatMax(RatMaxSeq(Tail(s)), s[1])

\* int(max(est_end_times) * 1000)
TotalEndMs(a) ==
    LET m == RatMaxSeq(EstEndTimes(a))
    IN  Trunc(m.n, m.d * TicksPerMs)

\* int(x * 1000) for x seconds held in ticks
ToMs(ticks) == Trunc(ticks, TicksPerMs)

NewFrameRate(audio, pitch) == Trunc(audio.frame_rate * pitch.n, pitch.d)

Pitched(audio, pitch) ==
    [frame_rate |-> NewFrameRate(audio, ClampEps(pitch)), data |-> audio.data]

\* pitched[start_ms:start_ms + length_ms] raises
CropRaises(audio, start, length, pitch) ==
    SliceRaises(Pitched(audio, pitch), ToMs(start), ToMs(start) + ToMs(length))

\* lines 100-107: re-rate, then crop
Crop(audio, start, length, pitch) ==
    GetSlice(Pitched(audio, pitch), ToMs(start), ToMs(start) + ToMs(length))

\* lines 94-111: the segment one clip contributes
Transform(audio, start, length, volume, pitch) ==
    ApplyGain(Crop(audio, start, length, pitch), ClampEps(volume))

NoSegment == [frame_rate |-> 0, data |-> << >>]

\* exporter.py: the run of main
VARIABLES args, pc, idx, final_mix, total_end_ms, out, err, written, decoded, blocks

\* formatter.py: the run of main
VARIABLES req, fpc, y, rms, normalized, branch, fout, ferr

mvars == <<args, pc, idx, final_mix, total_end_ms, out, err, written, decoded, blocks>>

fvars == <<req, fpc, y, rms, normalized, branch, fout, ferr>>

vars == <<mvars, fvars>>

NoRequest == [y |-> << >>, sr |-> 1, spacing |-> One, no_trim |-> TRUE, trim_db |-> 0]

\* the profiler is not running
ProfilerIdle ==
    /\ req = NoRequest
    /\ fpc = "idle"
    /\ y = << >>
    /\ rms = << >>
    /\ normalized = << >>
    /\ branch = ""
    /\ fout = << >>
    /\ ferr = ""

Init ==
    /\ \E n \in 1..MaxClips : \E clips \in [1..n -> ClipSpace] : \E drop \in 0..6 :
          /\ drop # 0 => n >= 2
          /\ args = ArgsOf(clips, drop)
    /\ pc = "setup"
    /\ idx = 0
    /\ final_mix = NoSegment
    /\ total_end_ms = 0
    /\ out = << >>
    /\ err = ""
    /\ written = FALSE
    /\ decoded = 0
    /\ blocks = 0
    /\ ProfilerIdle

Fail(e) ==
    /\ pc' = "failed"
    /\ err' = e

\* check_and_setup_ffmpeg, lines 52-53: ffmpeg is on the PATH
FfmpegFound ==
    /\ pc = "setup"
    /\ pc' = "parse"
    /\ UNCHANGED <<args, idx, final_mix, total_end_ms, out, err, written, decoded, blocks>>
    /\ UNCHANGED fvars

\* lines 54-55: no ffmpeg and not Windows
NotWindows ==
    /\ pc = "setup"
    /\ Fail("Exit1")
    /\ UNCHANGED <<args, idx, final_mix, total_end_ms, out, written, decoded, blocks>>
    /\ UNCHANGED fvars

\* lines 56-57, 37: no ffmpeg on Windows; the zip is fetched unless it is there
StartDownload ==
    /\ pc = "setup"
    /\ \E zipThere \in BOOLEAN : pc' = IF zipThere THEN "extract" ELSE "download"
    /\ UNCHANGED <<args, idx, final_mix, total_end_ms, out, err, written, decoded, blocks>>
    /\ UNCHANGED fvars

\* download_progress, lines 27-30: urlretrieve reports block 0, 1, .. MaxBlocks
DownloadProgress ==
    /\ pc = "download"
    /\ blocks <= MaxBlocks
    /\ out' = Append(out, IF blocks >= MaxBlocks THEN "download$1" ELSE "download$0")
    /\ blocks' = blocks + 1
    /\ pc' = IF blocks = MaxBlocks THEN "extract" ELSE "download"
    /\ UNCHANGED <<args, idx, final_mix, total_end_ms, err, written, decoded>>
    /\ UNCHANGED fvars

\* line 38: urlretrieve raises
DownloadFails ==
    /\ pc = "download"
    /\ Fail("DownloadError")
    /\ UNCHANGED <<args, idx, final_mix, total_end_ms, out, written, decoded, blocks>>
    /\ UNCHANGED fvars

\* lines 40-49, 58-60: the archive yields a usable ffmpeg
ExtractOk ==
    /\ pc = "extract"
    /\ pc' = "parse"
    /\ UNCHANGED <<args, idx, final_mix, total_end_ms, out, err, written, decoded, blocks>>
    /\ UNCHANGED fvars

\* lines 46-47, 59-60: no extracted directory, or still no ffmpeg
ExtractFail ==
    /\ pc = "extract"
    /\ Fail("Exit1")
    /\ UNCHANGED <<args, idx, final_mix, total_end_ms, out, written, decoded, blocks>>
    /\ UNCHANGED fvars

\* lines 79-81: parser.error
ConfigMismatch ==
    /\ pc = "parse"
    /\ ~SameLength(args)
    /\ Fail("ConfigMismatch")
    /\ UNCHANGED <<args, idx, final_mix, total_end_ms, out, written, decoded, blocks>>
    /\ UNCHANGED fvars

\* lines 79-91: the lists agree; estimate the end and allocate the canvas
Allocate ==
    /\ pc = "parse"
    /\ SameLength(args)
    /\ total_end_ms' = TotalEndMs(args)
    /\ final_mix' = Silent(TotalEndMs(args))
    /\ idx' = 1
    /\ pc' = "mix"
    /\ UNCHANGED <<args, out, err, written, decoded, blocks>>
    /\ UNCHANGED fvars

ClipAt(a, j) ==
    Clip(a.files[j], a.offsets[j], a.starts[j], a.lengths[j], a.volumes[j], a.pitches[j])

SegmentOf(c) == Transform(Decode(c.file), c.start, c.length, c.volume, c.pitch)

\* the frame rate line 101 hands to the crop is 0: len() divides by it
RateIsZero(c) == Pitched(Decode(c.file), c.pitch).frame_rate = 0

MixRaises(mix, c) ==
    \/ CropRaises(Decode(c.file), c.start, c.length, c.pitch)
    \/ OverlayRaises(mix, SegmentOf(c), ToMs(c.offset))

\* line 98: AudioSegment.from_ogg fails
DecodeFails ==
    /\ pc = "mix"
    /\ idx <= ZipLen6(args)
    /\ Fail("UnreadableSource")
    /\ UNCHANGED <<args, idx, final_mix, total_end_ms, out, written, decoded, blocks>>
    /\ UNCHANGED fvars

\* line 107: pitched[...] takes len(pitched), a division by frame rate 0
MixZeroDivision ==
    /\ pc = "mix"
    /\ idx <= ZipLen6(args)
    /\ RateIsZero(ClipAt(args, idx))
    /\ decoded' = decoded + 1
    /\ Fail("ZeroDivisionError")
    /\ UNCHANGED <<args, idx, final_mix, total_end_ms, out, written, blocks>>
    /\ UNCHANGED fvars

\* lines 107, 114: a slice is short of more than 2 ms of frames
MixMissingFrames ==
    /\ pc = "mix"
    /\ idx <= ZipLen6(args)
    /\ ~RateIsZero(ClipAt(args, idx))
    /\ MixRaises(final_mix, ClipAt(args, idx))
    /\ decoded' = decoded + 1
    /\ Fail("TooManyMissingFrames")
    /\ UNCHANGED <<args, idx, final_mix, total_end_ms, out, written, blocks>>
    /\ UNCHANGED fvars

\* lines 93-114: one pass of the loop
MixClip ==
    /\ pc = "mix"
    /\ idx <= ZipLen6(args)
    /\ ~RateIsZero(ClipAt(args, idx))
    /\ ~MixRaises(final_mix, ClipAt(args, idx))
    /\ final_mix' = Overlay(final_mix, SegmentOf(ClipAt(args, idx)),
                            ToMs(ClipAt(args, idx).offset))
    /\ decoded' = decoded + 1
    /\ idx' = idx + 1
    /\ UNCHANGED <<args, pc, total_end_ms, out, err, written, blocks>>
    /\ UNCHANGED fvars

\* line 116: set_status("export", 1)
EmitExport ==
    /\ pc = "mix"
    /\ idx > ZipLen6(args)
    /\ out' = Append(out, "export$1")
    /\ pc' = "export"
    /\ UNCHANGED <<args, idx, final_mix, total_end_ms, err, written, decoded, blocks>>
    /\ UNCHANGED fvars

\* line 117: final_mix.export writes the file
Export ==
    /\ pc = "export"
    /\ written' = TRUE
    /\ pc' = "done"
    /\ UNCHANGED <<args, idx, final_mix, total_end_ms, out, err, decoded, blocks>>
    /\ UNCHANGED fvars

\* line 117: final_mix.export fails
ExportFails ==
    /\ pc = "export"
    /\ Fail("WriteFailure")
    /\ UNCHANGED <<args, idx, final_mix, total_end_ms, out, written, decoded, blocks>>
    /\ UNCHANGED fvars

Next ==
    \/ FfmpegFound
    \/ NotWindows
    \/ StartDownload
    \/ DownloadProgress
    \/ DownloadFails
    \/ ExtractOk
    \/ ExtractFail
    \/ ConfigMismatch
    \/ Allocate
    \/ DecodeFails
    \/ MixZeroDivision
    \/ MixMissingFrames
    \/ MixClip
    \/ EmitExport
    \/ Export
    \/ ExportFails

Spec == Init /\ [][Next]_vars

\* ------------------------------------------------ mixer properties ----
Lines(o) == {o[k] : k \in 1..Len(o)}

Allocated == pc \in {"mix", "export", "done"}

MixError == [frame_rate |-> -1, data |-> << >>]

\* the canvas after mixing the clips of a in the order perm[1], perm[2], ..
RECURSIVE MixFrom(_, _, _, _)
MixFrom(mix, a, perm, j) ==
    IF j > ZipLen6(a) THEN mix
    ELSE IF RateIsZero(ClipAt(a, perm[j])) THEN MixError
    ELSE IF MixRaises(mix, ClipAt(a, perm[j])) THEN MixError
    ELSE MixFrom(Overlay(mix, SegmentOf(ClipAt(a, perm[j])), ToMs(ClipAt(a, perm[j]).offset)),
                 a, perm, j + 1)

MixInOrder(a, perm) == MixFrom(Silent(TotalEndMs(a)), a, perm, 1)

\* the clips of the plan play at one common sample rate
OneRate ==
    \A j, k \in 1..ZipLen6(args) :
        Pitched(Decode(args.files[j]), args.pitches[j]).frame_rate
            = Pitched(Decode(args.files[k]), args.pitches[k]).frame_rate

\* C1: once all clips (of one common sample rate) are mixed, mixing them in
\* any other order of the input gives the same canvas, sample for sample.
C1_OverlayCommutative ==
    (pc = "done" /\ OneRate) =>
        \A perm \in Permutations(1..ZipLen6(args)) : MixInOrder(args, perm) = final_mix

\* the clip's end on the timeline as the specification defines it,
\* offset + length / pitch with pitch no lower than 1e-8, in ticks: [n / d]
SpecPitch(c) == IF c.pitch.n * EpsDen <= c.pitch.d THEN Eps ELSE c.pitch

SpecEnd(c) == [n |-> c.offset * SpecPitch(c).n + c.length * SpecPitch(c).d,
               d |-> SpecPitch(c).n]

ClipIds == 1..ZipLen6(args)

\* clips the data model allows: start >= 0 and length > 0
WellFormed(c) == c.start >= 0 /\ c.length > 0

\* C2: the duration of the allocated canvas is at least offset + length/pitch
\* of every clip and equal to it for the maximizing clip (already for plans
\* whose clips all have start >= 0 and length > 0).
C2_CanvasCoversEveryEnd ==
    (Allocated /\ \A j \in ClipIds : WellFormed(ClipAt(args, j))) =>
        /\ \A j \in ClipIds :
              SpecEnd(ClipAt(args, j)).n
                 <= total_end_ms * TicksPerMs * SpecEnd(ClipAt(args, j)).d
        /\ \E j \in ClipIds :
              SpecEnd(ClipAt(args, j)).n
                 = total_end_ms * TicksPerMs * SpecEnd(ClipAt(args, j)).d

\* t milliseconds is the rational r ticks truncated toward zero
TruncatesTo(r, t) ==
    IF r.n >= 0
    THEN t * TicksPerMs * r.d <= r.n /\ r.n < (t + 1) * TicksPerMs * r.d
    ELSE (t - 1) * TicksPerMs * r.d < r.n /\ r.n <= t * TicksPerMs * r.d

\* C2 (amended): the canvas duration in milliseconds is the largest clip end
\* offset + length/pitch truncated toward zero to whole milliseconds, and the
\* canvas is allocated with int(11025 * ms / 1000) silent frames.
C2_CanvasIsTruncatedMax ==
    /\ Allocated =>
          \E j \in ClipIds :
              /\ TruncatesTo(SpecEnd(ClipAt(args, j)), total_end_ms)
              /\ \A k \in ClipIds :
                    SpecEnd(ClipAt(args, k)).n * SpecEnd(ClipAt(args, j)).d
                       <= SpecEnd(ClipAt(args, j)).n * SpecEnd(ClipAt(args, k)).d
    /\ (pc = "mix" /\ idx = 1) =>
          /\ final_mix.frame_rate = SilentRate
          /\ \A k \in 1..Len(final_mix.data) : final_mix.data[k] = 0
          /\ 1000 * Len(final_mix.data) <= SilentRate * Max2(total_end_ms, 0)
          /\ SilentRate * Max2(total_end_ms, 0) < 1000 * (Len(final_mix.data) + 1)

\* a canvas was allocated for a largest clip end that is not a whole millisecond
C2_Witness ==
    /\ pc = "mix"
    /\ idx = 1
    /\ Len(final_mix.data) > 0
    /\ \E j \in ClipIds :
          /\ TruncatesTo(SpecEnd(ClipAt(args, j)), total_end_ms)
          /\ SpecEnd(ClipAt(args, j)).n # total_end_ms * TicksPerMs * SpecEnd(ClipAt(args, j)).d

\* C3: for every clip overlaid so far, its placement offset plus the duration
\* of its transformed signal (pydub milliseconds) is within the canvas duration.
C3_ClipFitsCanvas ==
    Allocated =>
        \A j \in 1..(idx - 1) :
            WellFormed(ClipAt(args, j)) =>
                ToMs(ClipAt(args, j).offset) + SegLen(SegmentOf(ClipAt(args, j)))
                    <= total_end_ms

Degenerate(x) == x.n * EpsDen <= x.d

\* the six per-clip lists have one common length
ListsAgree ==
    Cardinality({Len(args.files), Len(args.offsets), Len(args.starts),
                 Len(args.lengths), Len(args.volumes), Len(args.pitches)}) = 1

\* C4: with parallel lists of unequal length the run fails with the
\* configuration-mismatch error before anything happens: nothing decoded, no
\* canvas, no overlay, no status line, no output (a run that the ffmpeg setup
\* itself ends is not held against the claim).
C4_MismatchBeforeAnything ==
    ~ListsAgree =>
        /\ out = << >>
        /\ decoded = 0
        /\ final_mix = NoSegment
        /\ idx = 0
        /\ ~written
        /\ (pc = "failed" /\ err \notin {"Exit1", "DownloadError"}) => err = "ConfigMismatch"

\* C4 (amended): with parallel lists of unequal length the run never gets past
\* argument validation: nothing is decoded, no canvas is allocated, no clip is
\* overlaid, no "export" line is emitted and no output is written; it ends in
\* the configuration-mismatch error unless the ffmpeg setup that precedes
\* validation ends the run first, and that setup may emit "download" status
\* lines.
C4_MismatchStopsAtValidation ==
    ~ListsAgree =>
        /\ Lines(out) \subseteq {"download$0", "download$1"}
        /\ decoded = 0
        /\ final_mix = NoSegment
        /\ idx = 0
        /\ ~written
        /\ pc \in {"setup", "download", "extract", "parse", "failed"}
        /\ pc = "failed" => err \in {"ConfigMismatch", "Exit1", "DownloadError"}

\* a mismatched run reported the configuration error after download lines
C4_Witness ==
    /\ ~ListsAgree
    /\ pc = "failed"
    /\ err = "ConfigMismatch"
    /\ out # << >>

\* C5: a clip whose volume or pitch is at or below the 1e-8 floor never makes
\* the run fail with a division by zero: its frame rate stays usable.
C5_DegenerateNeverFails ==
    \A j \in ClipIds :
        (Degenerate(ClipAt(args, j).pitch) \/ Degenerate(ClipAt(args, j).volume)) =>
            ~(pc = "failed" /\ err = "ZeroDivisionError" /\ idx = j)

\* C6: every overlaid clip with length <= 0 has an empty transformed signal.
C6_NonPositiveLengthEmpty ==
    Allocated =>
        \A j \in 1..(idx - 1) :
            ClipAt(args, j).length <= 0 => SegmentOf(ClipAt(args, j)).data = << >>

\* C10: an "export" line is on the output only once all clips are overlaid and
\* the output is written; a run that fails to encode has emitted none.
C10_ExportLineMarksCompletion ==
    /\ "export$1" \in Lines(out) => (written /\ idx > ZipLen6(args))
    /\ err = "WriteFailure" => "export$1" \notin Lines(out)


\* ------------------------------------------------ formatter.py ----
\* A loaded signal is held run-length encoded: a sequence of <<value, count>>
\* with count > 0, value being the sample in units of 1e-5 (librosa's amin).
\* An RMS is held as its square, the exact rational [n / d].
FrameLength == 1024
HopLength == 256
MaxRuns == 2
MaxBuckets == 16

RunValues == {0, 1, -30}

RunCounts == {3, 256, 700}

Signals == UNION {[1..k -> RunValues \X RunCounts] : k \in 0..MaxRuns}

Rates == {1000, 4000}

Spacings == {[n |-> 1, d |-> 4000], [n |-> 3, d |-> 2000], [n |-> 1, d |-> 4]}

TrimDbs == {0, 20, 60}

Requests ==
    {[y |-> sig, sr |-> r, spacing |-> sp, no_trim |-> nt, trim_db |-> db] :
        sig \in Signals, r \in Rates, sp \in Spacings, nt \in BOOLEAN, db \in TrimDbs}

\* y.size
RECURSIVE Size(_)
Size(runs) == IF runs = << >> THEN 0 ELSE Head(runs)[2] + Size(Tail(runs))

\* cumsum[k] of line 72: the power of the first k samples
RECURSIVE Cumsum(_, _)
Cumsum(runs, k) ==
    IF runs = << >> \/ k <= 0 THEN 0
    ELSE Head(runs)[1] * Head(runs)[1] * Min2(k, Head(runs)[2])
            + Cumsum(Tail(runs), k - Min2(k, Head(runs)[2]))

RECURSIVE DropSamples(_, _)
DropSamples(runs, k) ==
    IF runs = << >> \/ k <= 0 THEN runs
    ELSE IF k >= Head(runs)[2] THEN DropSamples(Tail(runs), k - Head(runs)[2])
    ELSE << <<Head(runs)[1], Head(runs)[2] - k>> >> \o Tail(runs)

RECURSIVE TakeSamples(_, _)
TakeSamples(runs, k) ==
    IF runs = << >> \/ k <= 0 THEN << >>
    ELSE IF k >= Head(runs)[2] THEN << Head(runs) >> \o TakeSamples(Tail(runs), k - Head(runs)[2])
    ELSE << <<Head(runs)[1], k>> >>

\* y[a:b] for 0 <= a, b <= y.size
SliceSamples(runs, a, b) == TakeSamples(DropSamples(runs, a), b - a)

\* librosa.feature.rms(center=True): 1 + n // hop frames over the signal
\* zero-padded by frame_length // 2 on both sides
NumFrames(runs, hop) == 1 + Size(runs) \div hop

\* frame_length times the mean power of frame f (from 0)
FramePower(runs, f, frame, hop) ==
    Cumsum(runs, Min2(Size(runs), f * hop + frame \div 2))
        - Cumsum(runs, Max2(0, f * hop - frame \div 2))

RECURSIVE MaxOf(_)
MaxOf(S) ==
    LET x == CHOOSE v \in S : TRUE
    IN  IF S = {x} THEN x ELSE Max2(x, MaxOf(S \ {x}))

\* 10 ** (top_db / 10)
PowerRatio(top_db) ==
    CASE top_db = 0 -> 1
      [] top_db = 20 -> 100
      [] top_db = 60 -> 1000000

\* amplitude_to_db(rms, ref=np.max, top_db=None) > -top_db, powers floored at amin ** 2
NonSilent(runs, top_db, frame, hop) ==
    LET ref == MaxOf({FramePower(runs, f, frame, hop) : f \in 0..(NumFrames(runs, hop) - 1)})
    IN  {f \in 0..(NumFrames(runs, hop) - 1) :
            Max2(frame, FramePower(runs, f, frame, hop))
                > Max2(frame, ref) \div PowerRatio(top_db)}

\* librosa.effects.trim(y, top_db, frame_length, hop_length)[0]
LibrosaTrim(runs, top_db, frame, hop) ==
    LET ns == NonSilent(runs, top_db, frame, hop)
    IN  IF ns = {} THEN << >>
        ELSE SliceSamples(runs, Min2(Size(runs), MinOf(ns) * hop),
                          Min2(Size(runs), (MaxOf(ns) + 1) * hop))

\* the trim without the fallback to the untrimmed signal
robust_trim_NoFallback(runs, enable_trim, top_db, frame, hop) ==
    IF ~enable_trim THEN runs ELSE LibrosaTrim(runs, top_db, frame, hop)

\* robust_trim, lines 37-45
robust_trim(runs, enable_trim, top_db, frame, hop) ==
    IF ~enable_trim THEN runs
    ELSE IF Size(LibrosaTrim(runs, top_db, frame, hop)) > 0
         THEN LibrosaTrim(runs, top_db, frame, hop)
         ELSE runs

\* line 75: max(int(round(spacing * sr)), 1)
SpacingSamples(spacing, rate) == Max2(RoundHalfEven(spacing.n * rate, spacing.d), 1)

\* the quotient rounded down
NIntervals_Floor(n, spacing_samples) == n \div spacing_samples

\* line 76: int(math.ceil(len(y) / spacing_samples))
NIntervals(n, spacing_samples) == CeilDiv(n, spacing_samples)

\* lines 78-85: the square of rms[k] (k from 1), sum over guarded length
BucketRms(runs, spacing_samples, k) ==
    LET start == spacing_samples * (k - 1)
        end   == Min2(start + spacing_samples, Size(runs))
    IN  [n |-> Cumsum(runs, end) - Cumsum(runs, start), d |-> Max2(end - start, 1)]

BucketAll(runs, spacing_samples) ==
    [k \in 1..NIntervals(Size(runs), spacing_samples) |-> BucketRms(runs, spacing_samples, k)]

RECURSIVE MaxRmsFrom(_, _)
MaxRmsFrom(r, k) ==
    IF k = Len(r) THEN r[k] ELSE RatMax(MaxRmsFrom(r, k + 1), r[k])

\* the first bucket taken for the maximum
MaxRms_First(r) == r[1]

\* line 88: float(np.max(rms)) if rms.size else 1.0
MaxRms(r) == IF Len(r) = 0 THEN One ELSE MaxRmsFrom(r, 1)

Reduced(num, den) ==
    IF num = 0 THEN Zero
    ELSE [n |-> num \div GCD(num, den), d |-> den \div GCD(num, den)]

\* line 92: the square of min(v / max_r, 1.0)
Scale(v, max_r) ==
    IF v.n * max_r.d >= max_r.n * v.d THEN One
    ELSE Reduced(v.n * max_r.d, v.d * max_r.n)

InitProfile ==
    /\ req \in Requests
    /\ req.no_trim => req.trim_db = 60
    /\ NIntervals(Size(req.y), SpacingSamples(req.spacing, req.sr)) <= MaxBuckets
    /\ fpc = "setup"
    /\ y = << >>
    /\ rms = << >>
    /\ normalized = << >>
    /\ branch = ""
    /\ fout = << >>
    /\ ferr = ""
    /\ args = ArgsOf(<< >>, 0)
    /\ pc = "idle"
    /\ idx = 0
    /\ final_mix = NoSegment
    /\ total_end_ms = 0
    /\ out = << >>
    /\ err = ""
    /\ written = FALSE
    /\ decoded = 0
    /\ blocks = 0

\* lines 48, 26-32: check_and_setup_ffmpeg returns
ProfilerSetup ==
    /\ fpc = "setup"
    /\ fpc' = "load"
    /\ UNCHANGED <<req, y, rms, normalized, branch, fout, ferr>>
    /\ UNCHANGED mvars

\* lines 31, 15-24: the download or the extraction of ffmpeg raises
ProfilerSetupFails ==
    /\ fpc = "setup"
    /\ ferr' = "SetupError"
    /\ fpc' = "failed"
    /\ UNCHANGED <<req, y, rms, normalized, branch, fout>>
    /\ UNCHANGED mvars

\* line 59: librosa.load
Load ==
    /\ fpc = "load"
    /\ y' = req.y
    /\ fpc' = "trim"
    /\ UNCHANGED <<req, rms, normalized, branch, fout, ferr>>
    /\ UNCHANGED mvars

\* line 59: librosa.load fails
LoadFails ==
    /\ fpc = "load"
    /\ ferr' = "UnreadableSource"
    /\ fpc' = "failed"
    /\ UNCHANGED <<req, y, rms, normalized, branch, fout>>
    /\ UNCHANGED mvars

\* line 64
Trim ==
    /\ fpc = "trim"
    /\ y' = robust_trim(y, ~req.no_trim, req.trim_db, FrameLength, HopLength)
    /\ fpc' = "bucket"
    /\ UNCHANGED <<req, rms, normalized, branch, fout, ferr>>
    /\ UNCHANGED mvars

\* lines 66-68
EmitEmpty ==
    /\ fpc = "bucket"
    /\ Size(y) = 0
    /\ fout' = Append(fout, << >>)
    /\ fpc' = "done"
    /\ UNCHANGED <<req, y, rms, normalized, branch, ferr>>
    /\ UNCHANGED mvars

\* lines 71-85
Bucket ==
    /\ fpc = "bucket"
    /\ Size(y) # 0
    /\ rms' = BucketAll(y, SpacingSamples(req.spacing, req.sr))
    /\ fpc' = "normalize"
    /\ UNCHANGED <<req, y, normalized, branch, fout, ferr>>
    /\ UNCHANGED mvars

\* lines 88-90
NormalizeSilent ==
    /\ fpc = "normalize"
    /\ MaxRms(rms).n = 0
    /\ normalized' = [k \in 1..Len(rms) |-> Zero]
    /\ branch' = "zeros"
    /\ fpc' = "emit"
    /\ UNCHANGED <<req, y, rms, fout, ferr>>
    /\ UNCHANGED mvars

\* lines 88-92
NormalizeScale ==
    /\ fpc = "normalize"
    /\ MaxRms(rms).n # 0
    /\ normalized' = LET max_r == MaxRms(rms)
                     IN  [k \in 1..Len(rms) |-> Scale(rms[k], max_r)]
    /\ branch' = "scale"
    /\ fpc' = "emit"
    /\ UNCHANGED <<req, y, rms, fout, ferr>>
    /\ UNCHANGED mvars

\* line 94: one token per value (the rounding to 5 decimals is not represented)
EmitProfile ==
    /\ fpc = "emit"
    /\ fout' = Append(fout, normalized)
    /\ fpc' = "done"
    /\ UNCHANGED <<req, y, rms, normalized, branch, ferr>>
    /\ UNCHANGED mvars

NextProfile ==
    \/ ProfilerSetup
    \/ ProfilerSetupFails
    \/ Load
    \/ LoadFails
    \/ Trim
    \/ EmitEmpty
    \/ Bucket
    \/ NormalizeSilent
    \/ NormalizeScale
    \/ EmitProfile

SpecProfile == InitProfile /\ [][NextProfile]_vars


\* --------------------------------------------- profiler properties ----
AllZero(runs) == \A k \in 1..Len(runs) : runs[k][1] = 0

Profiled == fpc \in {"emit", "done"}

C8_LengthIsCeilOfDuration ==
    Profiled =>
        Len(normalized) = CeilDiv(Size(y) * req.spacing.d, req.sr * req.spacing.n)

\* k is spacing * rate rounded to the nearest integer, ties to the even one
Nearest(sp, rate, k) ==
    \/ 2 * Abs(k * sp.d - sp.n * rate) < sp.d
    \/ 2 * Abs(k * sp.d - sp.n * rate) = sp.d /\ k % 2 = 0

\* m buckets of k samples are the fewest that cover n samples
Covers(m, k, n) == (m - 1) * k < n /\ n <= m * k

\* C8 (amended): the profile has ceil(sampleCount / spacingSamples) values,
\* spacingSamples being spacing * sampleRate rounded to the nearest integer
\* (ties to even) and at least 1; that is ceil(duration / spacing) whenever
\* spacing * sampleRate is a whole number of samples.
C8_LengthIsCeilOfSamples ==
    Profiled =>
        /\ \E k \in 0..((req.spacing.n * req.sr) \div req.spacing.d + 1) :
              /\ Nearest(req.spacing, req.sr, k)
              /\ Covers(Len(normalized), Max2(k, 1), Size(y))
        /\ ((req.spacing.n * req.sr) % req.spacing.d = 0) =>
              Len(normalized) = CeilDiv(Size(y) * req.spacing.d, req.sr * req.spacing.n)

\* a profile whose length differs from ceil(duration / spacing)
C8_Witness ==
    /\ fpc = "done"
    /\ Len(normalized) > 1
    /\ (req.spacing.n * req.sr) % req.spacing.d # 0
    /\ Len(normalized) # CeilDiv(Size(y) * req.spacing.d, req.sr * req.spacing.n)

\* C9: for an all-zero non-empty input, trimmed or not, the trimmer hands back
\* the input, normalization takes the max == 0 branch, and the emitted profile
\* is non-empty and zero everywhere.
C9_SilentInputAllZeros ==
    (AllZero(req.y) /\ Size(req.y) > 0) =>
        /\ fpc \in {"bucket", "normalize", "emit", "done"} => y = req.y
        /\ fpc \in {"emit", "done"} =>
              /\ branch = "zeros"
              /\ Len(normalized) >= 1
              /\ \A k \in 1..Len(normalized) : normalized[k] = Zero
        /\ fpc = "done" => ferr = "" /\ fout = << normalized >>

\* a silent input went through the trimmer with nothing within top_db
C9_Witness ==
    /\ fpc = "done"
    /\ AllZero(req.y)
    /\ Size(req.y) > FrameLength
    /\ ~req.no_trim
    /\ req.trim_db = 0
    /\ Len(normalized) > 1

====
